---- MODULE Spec2Model ----
(***************************************************************************)
(* Verification model of the DHT crawler core: the k-bucket routing table  *)
(* (src/routing/table.rs), the transaction registry and request engine     *)
(* (src/peer/response.rs, src/transport/send.rs,                           *)
(* packages/dht_crawler/src/transport/response_future.rs) and the KRPC     *)
(* envelope codec (packages/krpc_protocol/src/messages.rs).                *)
(*                                                                         *)
(* Each subsystem has its own specification (SpecTable, SpecTx, SpecCodec) *)
(* over the shared variable tuple; a specification leaves the variables of *)
(* the other subsystems at their idle values.                              *)
(***************************************************************************)
EXTENDS Integers, Sequences, FiniteSets, TLC

VARIABLES
    \* ---- routing table (RoutingTable, table.rs:13-21) ----
    id,          \* RoutingTable.id: the local node identifier
    buckets,     \* RoutingTable.buckets: Vec<Bucket>, here a sequence of [start, end, nodes]
    adds,        \* number of add_node calls made so far (bounded by MaxAdds)
    lastNode,    \* argument of the most recent add_node call (-1 before the first)
    \* ---- transaction registry and request engine ----
    version,       \* which ResponseFuture the build uses: "peer" (src/peer/response.rs)
                   \* or "crawler" (packages/dht_crawler/.../response_future.rs)
    transactions,  \* the shared transaction map: tid -> entry
    req,           \* the requests made through SendTransport::request
    sentTids,      \* tids of the datagrams handed to the socket so far
    signals,       \* per tid: wakers signalled since the last successful add
    pendingPolls,  \* per tid: the polls that reported pending since the last add:
                   \* n is 0 (none), 1 (one) or 2 (several), last is the last waker
    deliveredEnv,  \* per tid: envelope that completed the entry since the last add (0: none)
    lastOp,        \* the delivery made by the last step, if it was one
    \* ---- envelope codec ----
    cpc,           \* position of the codec run: idle, built, onwire, decoded
    cmsg,          \* the envelope value constructed by the program
    wire,          \* the bencoded dictionary on the wire
    decoded        \* the result of Message::decode

tableVars == <<id, buckets, adds, lastNode>>

txVars == <<version, transactions, req, sentTids, signals, pendingPolls,
            deliveredEnv, lastOp>>

codecVars == <<cpc, cmsg, wire, decoded>>

vars == <<id, buckets, adds, lastNode, version, transactions, req, sentTids,
          signals, pendingPolls, deliveredEnv, lastOp, cpc, cmsg, wire, decoded>>

(***************************************************************************)
(* Bounds                                                                  *)
(***************************************************************************)
\* Width of a node identifier in bits (160 in the program, scaled down).
KeyBits == 3
\* Bucket capacity K (MAX_BUCKET_SIZE, 8 in the program, scaled down).
K == 2
\* Number of add_node calls explored.
MaxAdds == 4

KeySpace == 2 ^ KeyBits
NodeIDs == 0 .. (KeySpace - 1)

\* Idle values of the transaction variables, used by the other specifications.
TxIdle ==
    /\ version = "peer"
    /\ transactions = <<>>
    /\ req = <<>>
    /\ sentTids = {}
    /\ signals = <<>>
    /\ pendingPolls = <<>>
    /\ deliveredEnv = <<>>
    /\ lastOp = [op |-> "step", t |-> 0, out |-> "none", env |-> 0, n |-> 0]

\* Idle values of the codec variables, used by the other specifications.
CodecIdle ==
    /\ cpc = "idle"
    /\ cmsg = [kind |-> "none"]
    /\ wire = <<>>
    /\ decoded = [kind |-> "none"]

(***************************************************************************)
(* Bucket (routing/bucket.rs)                                              *)
(***************************************************************************)
\* Bucket::initial_bucket: the single bucket [0, 2^KeyBits) with no nodes.
initial_bucket == [start |-> 0, end |-> KeySpace, nodes |-> {}]

\* Bucket::could_hold_node: the half-open interval [start, end) contains nid.
could_hold_node(bucket, nid) == bucket.start <= nid /\ nid < bucket.end

\* Bucket::is_full: the bucket holds K entries.
is_full(bucket) == Cardinality(bucket.nodes) >= K

\* Bucket::midpoint: start + (end - start) / 2.
midpoint(bucket) == bucket.start + ((bucket.end - bucket.start) \div 2)

\* Bucket::split: the bucket keeps [start, mid) and the entries in it; the
\* returned bucket is [mid, end) with the remaining entries.
Bucket_split(bucket) ==
    LET mid == midpoint(bucket)
    IN  [prev |-> [start |-> bucket.start, end |-> mid,
                   nodes |-> {n \in bucket.nodes : n < mid}],
         next |-> [start |-> mid, end |-> bucket.end,
                   nodes |-> {n \in bucket.nodes : n >= mid}]]

\* Bucket::add_node with the capacity check removed.
Bucket_add_node_unbounded(bucket, nid) ==
    [bucket EXCEPT !.nodes = @ \cup {nid}]

\* Bucket::add_node: the bounded set takes the node if it fits.
Bucket_add_node(bucket, nid) ==
    IF is_full(bucket) THEN bucket
    ELSE [bucket EXCEPT !.nodes = @ \cup {nid}]

(***************************************************************************)
(* RoutingTable (routing/table.rs)                                         *)
(***************************************************************************)
\* slice::binary_search_by with the comparator of get_bucket_idx:
\* Equal if the bucket could hold nid, else bucket.start.cmp(nid).
\* Returns 0 when the search ends without a match (the expect() panics).
RECURSIVE binary_search(_, _, _, _)
binary_search(bs, nid, left, right) ==
    IF left >= right THEN 0
    ELSE LET mid == left + ((right - left) \div 2)
             b   == bs[mid + 1]
         IN  IF could_hold_node(b, nid) THEN mid + 1
             ELSE IF b.start < nid THEN binary_search(bs, nid, mid + 1, right)
             ELSE IF b.start > nid THEN binary_search(bs, nid, left, mid)
             ELSE mid + 1

\* RoutingTable::get_bucket_idx (1-based index into the sequence).
get_bucket_idx(bs, nid) == binary_search(bs, nid, 0, Len(bs))

\* Insert an element at 1-based position idx of a sequence (Vec::insert).
InsertAt(s, idx, e) == SubSeq(s, 1, idx - 1) \o <<e>> \o SubSeq(s, idx, Len(s))

\* split_bucket inserting the new bucket before the old one.
split_bucket_before(bs, idx) ==
    LET sp == Bucket_split(bs[idx])
    IN  InsertAt([bs EXCEPT ![idx] = sp.prev], idx, sp.next)

\* split_bucket that inserts the high half but leaves the bucket at idx as
\* it was.
split_bucket_keeps_original(bs, idx) ==
    LET sp == Bucket_split(bs[idx])
    IN  InsertAt(bs, idx + 1, sp.next)

\* RoutingTable::split_bucket: the bucket at idx becomes the low half, the
\* high half is inserted at idx + 1.
split_bucket(bs, idx) ==
    LET sp == Bucket_split(bs[idx])
    IN  InsertAt([bs EXCEPT ![idx] = sp.prev], idx + 1, sp.next)

\* add_node that returns on every full bucket instead of splitting it.
add_node_without_split(bs, nid) ==
    LET bucket_idx == get_bucket_idx(bs, nid)
    IN  IF is_full(bs[bucket_idx])
        THEN bs
        ELSE [bs EXCEPT ![bucket_idx] = Bucket_add_node(@, nid)]

\* RoutingTable::add_node.  The split test of the code is
\* buckets[bucket_idx].could_hold_node(&node.id): it is applied to the id
\* of the inserted node, the table's own id is not consulted.
add_node(bs, nid) ==
    LET bucket_idx == get_bucket_idx(bs, nid)
    IN  IF is_full(bs[bucket_idx])
        THEN IF ~could_hold_node(bs[bucket_idx], nid)
             THEN bs
             ELSE LET split == split_bucket(bs, bucket_idx)
                      to    == IF could_hold_node(split[bucket_idx], nid)
                               THEN bucket_idx ELSE bucket_idx + 1
                  IN  [split EXCEPT ![to] = Bucket_add_node(@, nid)]
        ELSE [bs EXCEPT ![bucket_idx] = Bucket_add_node(@, nid)]

(***************************************************************************)
(* Routing table: state machine                                            *)
(***************************************************************************)
\* RoutingTable::new for every local identifier.
InitTable ==
    /\ id \in NodeIDs
    /\ buckets = <<initial_bucket>>
    /\ adds = 0
    /\ lastNode = -1
    /\ TxIdle
    /\ CodecIdle

\* One call of add_node with an arbitrary node identifier.
AddNode ==
    \E n \in NodeIDs :
        /\ adds < MaxAdds
        /\ get_bucket_idx(buckets, n) # 0
        /\ buckets' = add_node(buckets, n)
        /\ adds' = adds + 1
        /\ lastNode' = n
        /\ UNCHANGED id
        /\ UNCHANGED <<txVars, codecVars>>

NextTable == AddNode

SpecTable == InitTable /\ [][NextTable]_vars

(***************************************************************************)
(* Routing table: properties                                               *)
(***************************************************************************)
\* The number of buckets that could hold an identifier.
Holders(nid) == {i \in 1 .. Len(buckets) : could_hold_node(buckets[i], nid)}

\* C8: after any sequence of add_node calls the bucket list is ordered by
\* start, the first bucket starts at 0, the last ends at 2^KeyBits, each
\* bucket's end is the next bucket's start, and every identifier lies in
\* exactly one bucket.
BucketsPartitionKeySpace ==
    /\ Len(buckets) >= 1
    /\ buckets[1].start = 0
    /\ buckets[Len(buckets)].end = KeySpace
    /\ \A i \in 1 .. (Len(buckets) - 1) :
          /\ buckets[i].end = buckets[i + 1].start
          /\ buckets[i].start < buckets[i + 1].start
    /\ \A nid \in NodeIDs : Cardinality(Holders(nid)) = 1

\* Witness for C8: a table that has been split at least twice.
SplitTwiceReached == Len(buckets) >= 3 /\ adds >= 3

FullForeignBucketInsertIsNoOp ==
    [][ LET idx == get_bucket_idx(buckets, lastNode')
        IN  (adds' = adds + 1 /\ idx # 0
             /\ is_full(buckets[idx])
             /\ ~could_hold_node(buckets[idx], id))
            => buckets' = buckets ]_vars

\* C11 (as claimed): an add_node of the table's own identifier is rejected:
\* the table is unchanged and no bucket ever holds the local identifier.
LocalIdInsertRejected ==
    /\ [](\A i \in 1 .. Len(buckets) : id \notin buckets[i].nodes)
    /\ [][ (adds' = adds + 1 /\ lastNode' = id) => buckets' = buckets ]_vars

\* C17: an add_node into a full bucket [start, end) that contains the local
\* identifier replaces the bucket by [start, mid) and [mid, end) with
\* mid = start + (end - start) / 2; every entry lies in the half that
\* contains its identifier, the halves are disjoint, together they hold the
\* old entries plus the new node if its half has room, and the other
\* buckets are untouched.
SplitHalvesKeepEntries ==
    [][ adds' = adds + 1
        => \A idx \in {get_bucket_idx(buckets, lastNode')} :
             (idx # 0 /\ is_full(buckets[idx])
                      /\ could_hold_node(buckets[idx], id))
             => \A mid \in {midpoint(buckets[idx])} :
                  LET n    == lastNode'
                      b    == buckets[idx]
                      lo   == buckets'[idx]
                      hi   == buckets'[idx + 1]
                      fits == Cardinality({m \in b.nodes : (m < mid) <=> (n < mid)}) < K
                  IN  /\ Len(buckets') = Len(buckets) + 1
                      /\ lo.start = b.start /\ lo.end = mid
                      /\ hi.start = mid /\ hi.end = b.end
                      /\ \A m \in lo.nodes : could_hold_node(lo, m)
                      /\ \A m \in hi.nodes : could_hold_node(hi, m)
                      /\ lo.nodes \cap hi.nodes = {}
                      /\ lo.nodes \cup hi.nodes
                             = b.nodes \cup (IF fits THEN {n} ELSE {})
                      /\ \A i \in 1 .. (idx - 1) : buckets'[i] = buckets[i]
                      /\ \A i \in (idx + 1) .. Len(buckets) :
                             buckets'[i + 1] = buckets[i] ]_vars

\* Witness for C17: the initial bucket (it contains the local identifier)
\* was full and has been split; both halves hold entries, the new node is
\* in the high half and all K + 1 inserted nodes are in the table.
SplitKeptAllEntries ==
    /\ Len(buckets) = 2
    /\ adds = K + 1
    /\ buckets[1].nodes # {}
    /\ lastNode \in buckets[2].nodes
    /\ Cardinality(buckets[1].nodes \cup buckets[2].nodes) = K + 1

\* The fresh table holds K distinct nodes with first bit 0 after K calls,
\* the local identifier has first bit 0, and the next call inserts another
\* node with first bit 0.
InsertsNodeKPlusOneOfLowHalf ==
    /\ adds = K /\ adds' = K + 1
    /\ id < KeySpace \div 2
    /\ Len(buckets) = 1
    /\ Cardinality(buckets[1].nodes) = K
    /\ \A m \in buckets[1].nodes : m < KeySpace \div 2
    /\ lastNode' < KeySpace \div 2
    /\ lastNode' \notin buckets[1].nodes

MaxTid == 0
\* Number of distinct response envelopes.
MaxEnv == 1
\* Number of distinct task handles (wakers).
MaxWaker == 2
\* Number of requests made.
MaxReq == 2
Tids == 0 .. MaxTid
Envelopes == 1 .. MaxEnv
Wakers == 1 .. MaxWaker
Requests == 1 .. MaxReq

\* No entry for the tid in the map (HashMap::get returns None).
NoEntry == [st |-> "None", task |-> 0, response |-> 0]
\* TxState::AwaitingResponse { task }: task 0 is None, w > 0 is Some(w).
AwaitingResponse(w) == [st |-> "AwaitingResponse", task |-> w, response |-> 0]
\* TxState::GotResponse { response }.
GotResponse(e) == [st |-> "GotResponse", task |-> 0, response |-> e]

(***************************************************************************)
(* Registry operations that live outside src/ (ActiveTransactions and the  *)
(* receive path)                                                           *)
(***************************************************************************)
\* add_transaction: registers AwaitingResponse { task: None }, fails if the
\* tid is already present.
add_transaction(map, tid) ==
    IF map[tid].st # "None"
    THEN [map |-> map, ok |-> FALSE]
    ELSE [map |-> [map EXCEPT ![tid] = AwaitingResponse(0)], ok |-> TRUE]

\* deliver: an awaiting entry becomes GotResponse and its installed task is
\* signalled (woken = 0: nobody); any other delivery is dropped.
deliver(map, tid, env) ==
    IF map[tid].st = "AwaitingResponse"
    THEN [map |-> [map EXCEPT ![tid] = GotResponse(env)],
          woken |-> map[tid].task, took |-> TRUE]
    ELSE [map |-> map, woken |-> 0, took |-> FALSE]

\* poll_response: a completed entry is removed and returned, an awaiting
\* entry gets the current waker, a missing entry is TransactionNotFound.
poll_response(map, tid, w) ==
    CASE map[tid].st = "GotResponse" ->
            [map |-> [map EXCEPT ![tid] = NoEntry], ret |-> "Ready",
             env |-> map[tid].response]
      [] map[tid].st = "AwaitingResponse" ->
            [map |-> [map EXCEPT ![tid] = AwaitingResponse(w)],
             ret |-> "NotReady", env |-> 0]
      [] OTHER ->
            [map |-> map, ret |-> "TransactionNotFound", env |-> 0]

\* drop_transaction: removes the entry whatever its state.
drop_transaction(map, tid) == [map EXCEPT ![tid] = NoEntry]

(***************************************************************************)
(* ResponseFuture                                                          *)
(***************************************************************************)
\* poll of peer/response.rs that puts a received response back into the map.
poll_keeps_response(map, tid, w) ==
    CASE map[tid].st = "None" ->
            [map |-> map, ret |-> "TransactionNotFound", env |-> 0]
      [] map[tid].st = "AwaitingResponse" /\ map[tid].task # 0 ->
            [map |-> map, ret |-> "NotReady", env |-> 0]
      [] map[tid].st = "AwaitingResponse" /\ map[tid].task = 0 ->
            [map |-> [map EXCEPT ![tid] = AwaitingResponse(w)],
             ret |-> "NotReady", env |-> 0]
      [] OTHER ->
            [map |-> map, ret |-> "Ready", env |-> map[tid].response]

\* poll of peer/response.rs that never stores the current task.
poll_without_task(map, tid, w) ==
    CASE map[tid].st = "None" ->
            [map |-> map, ret |-> "TransactionNotFound", env |-> 0]
      [] map[tid].st = "AwaitingResponse" ->
            [map |-> map, ret |-> "NotReady", env |-> 0]
      [] OTHER ->
            [map |-> [map EXCEPT ![tid] = NoEntry], ret |-> "Ready",
             env |-> map[tid].response]

\* ResponseFuture::poll (peer/response.rs): the entry is taken out of the
\* map; an awaiting entry with a task goes back unchanged, one without a
\* task goes back with task::current(), a received response is returned
\* and stays out of the map.
poll(map, tid, w) ==
    CASE map[tid].st = "None" ->
            [map |-> map, ret |-> "TransactionNotFound", env |-> 0]
      [] map[tid].st = "AwaitingResponse" /\ map[tid].task # 0 ->
            [map |-> map, ret |-> "NotReady", env |-> 0]
      [] map[tid].st = "AwaitingResponse" /\ map[tid].task = 0 ->
            [map |-> [map EXCEPT ![tid] = AwaitingResponse(w)],
             ret |-> "NotReady", env |-> 0]
      [] OTHER ->
            [map |-> [map EXCEPT ![tid] = NoEntry], ret |-> "Ready",
             env |-> map[tid].response]

\* ResponseFuture::try_poll (response_future.rs): poll_response with the
\* context's waker.
try_poll(map, tid, w) == poll_response(map, tid, w)

\* The poll of the ResponseFuture of the build.
poll_future(ver, map, tid, w) ==
    IF ver = "peer" THEN poll(map, tid, w) ELSE try_poll(map, tid, w)

\* Dropping a ResponseFuture: response_future.rs implements Drop with
\* drop_transaction; peer/response.rs has no Drop, the map is untouched.
drop_future(ver, map, tid) ==
    IF ver = "crawler" THEN drop_transaction(map, tid) ELSE map

\* ResponseFuture::wait_for_tx: add_transaction, then the future.
wait_for_tx(map, tid) ==
    LET a == add_transaction(map, tid)
    IN  [map |-> a.map, txres |-> IF a.ok THEN "fut" ELSE "err"]

(***************************************************************************)
(* SendTransport::request                                                  *)
(***************************************************************************)
\* request with the datagram sent before the transaction is registered.
request_order_send_first == <<"send_request", "wait_for_tx", "await">>

\* The statements of SendTransport::request in program order.
request_order == <<"wait_for_tx", "send_request", "await">>

\* What request r does next (step 1: request has not been called yet).
Stage(r) ==
    IF req[r].step > Len(request_order) THEN "done"
    ELSE request_order[req[r].step]

\* Request r may run its next statement with transaction id t: a request
\* that is not yet called is called now by a typed request (ping,
\* find_node, ...) with a random id t, after the requests numbered before
\* it; a request under way goes on with its own id.
Runs(r, t) ==
    IF req[r].step = 1
    THEN \A q \in Requests : q < r => req[q].step > 1
    ELSE t = req[r].tid

Done == Len(request_order) + 1

NewRequest == [step |-> 1, tid |-> 0, txres |-> "none", addRan |-> FALSE,
               sent |-> FALSE]

\* The record of what the last step did: op is "step" (nothing to report),
\* "pending" (a poll with waker n reported pending),
\* "resolve" (a request resolved with out / env after n pending polls) or
\* "deliver" (out says whether the registry took the envelope or dropped
\* it, env is the envelope taken, n the task that was signalled, 0 for
\* none).
Ev(op, t, out, env, n) == [op |-> op, t |-> t, out |-> out, env |-> env, n |-> n]

Quiet == Ev("step", 0, "none", 0, 0)

\* No poll has reported pending.
NoPolls == [n |-> 0, last |-> 0]

\* The histories of tid t are cleared.
ClearHistory(t) ==
    /\ signals' = [signals EXCEPT ![t] = <<>>]
    /\ pendingPolls' = [pendingPolls EXCEPT ![t] = NoPolls]
    /\ deliveredEnv' = [deliveredEnv EXCEPT ![t] = 0]

InitTx ==
    /\ version \in {"peer", "crawler"}
    /\ transactions = [t \in Tids |-> NoEntry]
    /\ req = [r \in Requests |-> NewRequest]
    /\ sentTids = {}
    /\ signals = [t \in Tids |-> <<>>]
    /\ pendingPolls = [t \in Tids |-> NoPolls]
    /\ deliveredEnv = [t \in Tids |-> 0]
    /\ lastOp = Quiet
    /\ id = 0 /\ buckets = <<>> /\ adds = 0 /\ lastNode = -1
    /\ CodecIdle

\* request: ResponseFuture::wait_for_tx(transaction_id, transactions).
WaitForTx(r, t) ==
    LET w == wait_for_tx(transactions, t)
    IN  /\ Stage(r) = "wait_for_tx"
        /\ Runs(r, t)
        /\ transactions' = w.map
        /\ req' = [req EXCEPT ![r].step = @ + 1, ![r].tid = t,
                              ![r].txres = w.txres, ![r].addRan = TRUE]
        /\ IF w.txres = "fut"
           THEN ClearHistory(t)
           ELSE UNCHANGED <<signals, pendingPolls, deliveredEnv>>
        /\ lastOp' = Quiet
        /\ UNCHANGED <<version, sentTids>>
        /\ UNCHANGED <<tableVars, codecVars>>

\* request: send_request succeeds, the datagram is on the wire.
SendRequest(r, t) ==
    /\ Stage(r) = "send_request"
    /\ Runs(r, t)
    /\ sentTids' = sentTids \cup {t}
    /\ req' = [req EXCEPT ![r].step = @ + 1, ![r].tid = t, ![r].sent = TRUE]
    /\ lastOp' = Quiet
    /\ UNCHANGED <<version, transactions, signals, pendingPolls, deliveredEnv>>
    /\ UNCHANGED <<tableVars, codecVars>>

\* Request r resolves with outcome out / env; the ResponseFuture it holds,
\* if any, is dropped, and the map after the step is map.  Nothing of a
\* resolved request is kept but the fact that it is over.
Resolve(r, t, out, env, map) ==
        /\ req' = [req EXCEPT ![r] = [NewRequest EXCEPT !.step = Done]]
        /\ lastOp' = Ev("resolve", t, out, env, pendingPolls[t].n)
        /\ IF req[r].txres = "fut"
           THEN /\ transactions' = drop_future(version, map, t)
                /\ ClearHistory(t)
           ELSE /\ transactions' = map
                /\ UNCHANGED <<signals, pendingPolls, deliveredEnv>>
        /\ UNCHANGED <<version, sentTids>>
        /\ UNCHANGED <<tableVars, codecVars>>

\* request: send_request fails; the chain resolves with SendError and the
\* registered future held by the and_then closure is dropped.
SendFail(r, t) ==
    /\ Stage(r) = "send_request"
    /\ Runs(r, t)
    /\ Resolve(r, t, "SendError", 0, transactions)

\* request: the registration error stored in transaction_future_result is
\* what the chain resolves with after the send.
ResolveRegistrationError(r) ==
    /\ Stage(r) = "await"
    /\ req[r].txres # "fut"
    /\ Resolve(r, req[r].tid, "DuplicateTransaction", 0, transactions)

\* The executor polls the request's ResponseFuture with task handle w.  A
\* future that resolves is dropped by the chain.
Poll(r, w) ==
    LET t == req[r].tid
        p == poll_future(version, transactions, t, w)
    IN  /\ Stage(r) = "await"
        /\ req[r].txres = "fut"
        /\ IF p.ret = "NotReady"
           THEN /\ transactions' = p.map
                /\ pendingPolls' = [pendingPolls EXCEPT
                                       ![t] = [n |-> IF @.n = 0 THEN 1 ELSE 2,
                                               last |-> w]]
                /\ lastOp' = Ev("pending", t, "NotReady", 0, w)
                /\ UNCHANGED <<version, req, sentTids, signals, deliveredEnv>>
                /\ UNCHANGED <<tableVars, codecVars>>
           ELSE Resolve(r, t, p.ret, p.env, p.map)

\* The caller drops the future returned by request before it resolved.
DropRequest(r) ==
    /\ Stage(r) = "await"
    /\ Resolve(r, req[r].tid, "Dropped", 0, transactions)

\* The per-request timeout expires while the entry is still awaiting: the
\* request is cancelled by dropping its future and resolves with Timeout.
Timeout(r) ==
    /\ Stage(r) = "await"
    /\ req[r].txres = "fut"
    /\ transactions[req[r].tid].st = "AwaitingResponse"
    /\ Resolve(r, req[r].tid, "Timeout", 0, transactions)

\* The receive path hands envelope e with transaction id t to the registry.
Receive(t, e) ==
    LET d == deliver(transactions, t, e)
    IN  /\ transactions' = d.map
        /\ signals' = IF d.woken # 0
                      THEN [signals EXCEPT ![t] = Append(@, d.woken)]
                      ELSE signals
        /\ deliveredEnv' = IF d.took
                           THEN [deliveredEnv EXCEPT ![t] = e]
                           ELSE deliveredEnv
        /\ lastOp' = IF d.took THEN Ev("deliver", t, "took", e, d.woken)
                             ELSE Ev("deliver", t, "dropped", 0, 0)
        /\ UNCHANGED <<version, req, sentTids, pendingPolls>>
        /\ UNCHANGED <<tableVars, codecVars>>

\* A reply to a datagram the engine sent (UDP may duplicate it).
Deliver(t, e) == t \in sentTids /\ Receive(t, e)

\* A datagram from a peer carrying a tid the engine never sent.
DeliverUnsolicited(t, e) == t \notin sentTids /\ Receive(t, e)

NextTx ==
    \/ \E r \in Requests, t \in Tids : WaitForTx(r, t)
    \/ \E r \in Requests, t \in Tids : SendRequest(r, t)
    \/ \E r \in Requests, t \in Tids : SendFail(r, t)
    \/ \E r \in Requests : ResolveRegistrationError(r)
    \/ \E r \in Requests, w \in Wakers : Poll(r, w)
    \/ \E r \in Requests : DropRequest(r)
    \/ \E r \in Requests : Timeout(r)
    \/ \E t \in Tids, e \in Envelopes : Deliver(t, e)
    \/ \E t \in Tids, e \in Envelopes : DeliverUnsolicited(t, e)

SpecTx == InitTx /\ [][NextTx]_vars

\* Type correctness of the transaction variables.
TxTypeOK ==
    /\ version \in {"peer", "crawler"}
    /\ \A t \in Tids : transactions[t].st \in {"None", "AwaitingResponse", "GotResponse"}
    /\ \A r \in Requests : req[r].step \in 1 .. Done

(***************************************************************************)
(* Transaction registry and request engine: properties                     *)
(***************************************************************************)
\* Request r resolves in this step with outcome out.
ResolvesWith(r, out) ==
    /\ req[r].step # Done /\ req'[r].step = Done
    /\ lastOp'.op = "resolve" /\ lastOp'.out = out

\* Request r's future is polled in this step: the poll reports pending
\* or resolves the request.
PollStep(r) ==
    /\ Stage(r) = "await"
    /\ req[r].txres = "fut"
    /\ \/ lastOp'.op = "pending" /\ lastOp'.t = req[r].tid
       \/ ResolvesWith(r, "Ready")
       \/ ResolvesWith(r, "TransactionNotFound")

\* C1: after add(t) and deliver(t, e), the next poll of t returns the
\* completed envelope e and the registry holds no entry for t afterwards.
PollAfterDeliverReturnsEnvelope ==
    [][ \A r \in Requests :
          (PollStep(r) /\ pendingPolls[req[r].tid].n = 0
                       /\ deliveredEnv[req[r].tid] # 0)
          => /\ ResolvesWith(r, "Ready")
             /\ lastOp'.env = deliveredEnv[req[r].tid]
             /\ transactions'[req[r].tid] = NoEntry ]_vars

\* Witness for C1: the first poll of a request has just returned a
\* delivered envelope, and the entry is gone.
FirstPollCompleted ==
    /\ lastOp.op = "resolve" /\ lastOp.out = "Ready"
    /\ lastOp.env \in Envelopes
    /\ lastOp.n = 0
    /\ transactions[lastOp.t] = NoEntry

\* C2: after add(t) and one pending poll with waker w1, deliver(t, e)
\* signals w1 exactly once (and nothing else), and the following poll
\* returns the completed envelope e.
DeliverSignalsInstalledWakerOnce ==
    /\ [](\A t \in Tids :
            /\ Len(signals[t]) <= 1
            /\ (pendingPolls[t].n = 1 /\ deliveredEnv[t] # 0)
                   => signals[t] = <<pendingPolls[t].last>>)
    /\ [][ \A r \in Requests :
             (PollStep(r) /\ pendingPolls[req[r].tid].n = 1
                          /\ deliveredEnv[req[r].tid] # 0)
             => /\ ResolvesWith(r, "Ready")
                /\ lastOp'.env = deliveredEnv[req[r].tid] ]_vars

\* Witness for C2: a request that polled pending once and was then
\* completed by a delivery has just got the envelope from its second poll.
WokenThenCompleted ==
    /\ lastOp.op = "resolve" /\ lastOp.out = "Ready"
    /\ lastOp.env \in Envelopes
    /\ lastOp.n = 1
    /\ transactions[lastOp.t] = NoEntry

\* C3 (as claimed): dropping the future returned by a request removes the
\* registry entry of its transaction, whatever state the entry is in.
DropCancelsTransaction ==
    [][ \A r \in Requests :
          (Stage(r) = "await" /\ req[r].txres = "fut" /\ ResolvesWith(r, "Dropped"))
          => transactions'[req[r].tid] = NoEntry ]_vars

TimeoutRemovesEntry ==
    [][ \A r \in Requests :
          ResolvesWith(r, "Timeout") => transactions'[req[r].tid] = NoEntry ]_vars

\* Request r holds the ResponseFuture of a successful registration.
HoldsFuture(r) ==
    req[r].txres = "fut" /\ Stage(r) \in {"send_request", "await"}

\* C12 (as claimed): a cancellation that follows a delivery and precedes
\* every poll discards the stored envelope with its entry, and every
\* envelope a poll returns was delivered after the registration of the
\* request that gets it.
CancelAfterDeliverDiscardsEnvelope ==
    /\ [][ \A r \in Requests :
             (HoldsFuture(r) /\ ResolvesWith(r, "Dropped")
                 /\ transactions[req[r].tid].st = "GotResponse")
             => transactions'[req[r].tid] = NoEntry ]_vars
    /\ [][ \A r \in Requests :
             (HoldsFuture(r) /\ ResolvesWith(r, "Ready"))
             => /\ deliveredEnv[req[r].tid] # 0
                /\ lastOp'.env = deliveredEnv[req[r].tid] ]_vars

\* C13 (as claimed): a delivery for a tid without an entry changes nothing
\* and signals nobody, and a delivery for a tid whose future was cancelled
\* (no request holds a future for it) signals no waker.
DeliverWithoutEntryIsNoOp ==
    /\ [][ (lastOp'.op = "deliver" /\ transactions[lastOp'.t] = NoEntry)
           => /\ transactions' = transactions
              /\ signals' = signals
              /\ lastOp'.out = "dropped" ]_vars
    /\ [][ (lastOp'.op = "deliver"
              /\ \A r \in Requests : ~(HoldsFuture(r) /\ req[r].tid = lastOp'.t))
           => /\ lastOp'.n = 0
              /\ signals' = signals ]_vars

\* C14 (as claimed): a poll that reports pending leaves the entry awaiting
\* with the waker of this poll, and a delivery signals the waker of the
\* most recent pending poll.
PollReplacesStoredWaker ==
    /\ [][ (lastOp'.op = "pending")
           => transactions'[lastOp'.t] = AwaitingResponse(lastOp'.n) ]_vars
    /\ [][ (lastOp'.op = "deliver" /\ lastOp'.out = "took"
              /\ pendingPolls[lastOp'.t].n > 0)
           => lastOp'.n = pendingPolls[lastOp'.t].last ]_vars

\* C15 (as claimed): when the registration succeeded and the send fails,
\* the request resolves with SendError and the registry holds no awaiting
\* entry for its tid afterwards.
SendFailureCancelsTransaction ==
    [][ \A r \in Requests :
          (Stage(r) = "send_request" /\ req[r].txres = "fut"
              /\ ResolvesWith(r, "SendError"))
          => transactions'[req[r].tid].st # "AwaitingResponse" ]_vars

\* C16 (as claimed): a registration that collides with a tid already
\* present is retried with another id, so a request never goes on with a
\* failed registration and never fails with the duplicate error of a
\* single collision.
CollisionIsRetried ==
    /\ [][ \A r \in Requests :
             (Stage(r) = "wait_for_tx" /\ req'[r].addRan)
             => req'[r].txres = "fut" \/ Stage(r)' = "wait_for_tx" ]_vars
    /\ [][ \A r \in Requests : ~ResolvesWith(r, "DuplicateTransaction") ]_vars

\* C20 (as claimed): a datagram is sent only by a request whose own
\* registration of the tid succeeded, and a failed registration leaves the
\* entry of the request in flight under that tid unchanged.
SendsOnlyAfterSuccessfulRegistration ==
    /\ [][ \A r \in Requests :
             (~req[r].sent /\ req'[r].sent) => req[r].txres = "fut" ]_vars
    /\ [][ \A r \in Requests :
             (Stage(r) = "wait_for_tx" /\ req'[r].txres = "err")
             => transactions' = transactions ]_vars

(***************************************************************************)
(* KRPC envelope codec (krpc_protocol/src/messages.rs)                     *)
(*                                                                         *)
(* A bencoded dictionary is a function from key strings to values; an      *)
(* Option is <<>> (None) or <<x>> (Some(x)) and an absent key on the wire. *)
(***************************************************************************)
\* Number of distinct node identifiers used in messages.
MaxCodecId == 1
\* Longest nodes / peers / samples list in a constructed message.
MaxList == 1

CodecIds == 1 .. MaxCodecId
\* One compact peer address (Addr).
Addrs == {7}
NodeInfos == [id : CodecIds, address : Addrs]

\* All sequences over S of length at most n.
RECURSIVE SeqsUpTo(_, _)
SeqsUpTo(S, n) ==
    IF n = 0 THEN {<<>>}
    ELSE LET shorter == SeqsUpTo(S, n - 1)
         IN  shorter \cup {Append(s, x) : s \in {q \in shorter : Len(q) = n - 1}, x \in S}

\* Option<T> over a set of values.
OptionOf(S) == {<<>>} \cup {<<x>> : x \in S}

\* The dictionary entry for an optional field: nothing for None.
OptField(key, o) == IF o = <<>> THEN <<>> ELSE key :> o[1]

\* node_info::serialize: the NodeInfos concatenated into one byte string,
\* each record contributing its id bytes and its address bytes.
RECURSIVE node_info_serialize(_)
node_info_serialize(nodes) ==
    IF nodes = <<>> THEN <<>>
    ELSE <<Head(nodes).id, Head(nodes).address>> \o node_info_serialize(Tail(nodes))

\* node_info::deserialize: the byte string cut into whole records; a
\* string that is not a whole number of records is an error.
RECURSIVE node_info_chunks(_)
node_info_chunks(blob) ==
    IF Len(blob) < 2 THEN <<>>
    ELSE <<[id |-> blob[1], address |-> blob[2]]>> \o node_info_chunks(SubSeq(blob, 3, Len(blob)))

node_info_deserialize(blob) ==
    IF Len(blob) % 2 = 0
    THEN [ok |-> TRUE, nodes |-> node_info_chunks(blob)]
    ELSE [ok |-> FALSE, nodes |-> <<>>]

\* booleans::deserialize: an integer on the wire, non-zero is true.
booleans_deserialize(i) == i # 0

\* serde_bencode writes a bool as the integer 1 or 0.
bool_serialize(b) == IF b THEN 1 ELSE 0

\* ---- Response (untagged enum) ----
\* Serialize for Response: the fields of the variant, absent optionals
\* left out.
Response_serialize(r) ==
    CASE r.variant = "NextHop" ->
            ("id" :> r.id) @@ OptField("token", r.token)
                @@ ("nodes" :> node_info_serialize(r.nodes))
      [] r.variant = "GetPeers" ->
            ("id" :> r.id) @@ OptField("token", r.token) @@ ("values" :> r.peers)
      [] r.variant = "OnlyID" ->
            ("id" :> r.id)
      [] OTHER ->
            ("id" :> r.id) @@ OptField("interval", r.interval)
                @@ ("nodes" :> node_info_serialize(r.nodes))
                @@ OptField("num", r.num) @@ ("samples" :> r.samples)

\* The value of an optional key of a dictionary.
OptGet(d, key) == IF key \in DOMAIN d THEN <<d[key]>> ELSE <<>>

\* Whether the dictionary deserializes as the given variant: the
\* non-optional fields are present and parse; other keys are ignored.
VariantMatches(d, variant) ==
    CASE variant = "NextHop" ->
            /\ "id" \in DOMAIN d /\ "nodes" \in DOMAIN d
            /\ node_info_deserialize(d["nodes"]).ok
      [] variant = "GetPeers" ->
            "id" \in DOMAIN d /\ "values" \in DOMAIN d
      [] variant = "OnlyID" ->
            "id" \in DOMAIN d
      [] OTHER ->
            /\ "id" \in DOMAIN d /\ "nodes" \in DOMAIN d /\ "samples" \in DOMAIN d
            /\ node_info_deserialize(d["nodes"]).ok

\* The value of a variant built from a dictionary that matches it.
VariantValue(d, variant) ==
    CASE variant = "NextHop" ->
            [variant |-> "NextHop", id |-> d["id"], token |-> OptGet(d, "token"),
             nodes |-> node_info_deserialize(d["nodes"]).nodes]
      [] variant = "GetPeers" ->
            [variant |-> "GetPeers", id |-> d["id"], token |-> OptGet(d, "token"),
             peers |-> d["values"]]
      [] variant = "OnlyID" ->
            [variant |-> "OnlyID", id |-> d["id"]]
      [] OTHER ->
            [variant |-> "Samples", id |-> d["id"], interval |-> OptGet(d, "interval"),
             nodes |-> node_info_deserialize(d["nodes"]).nodes,
             num |-> OptGet(d, "num"), samples |-> d["samples"]]

\* The variants with GetPeers declared before NextHop.
ResponseVariants_GetPeersFirst == <<"GetPeers", "NextHop", "OnlyID", "Samples">>

\* The variants of Response in declaration order (messages.rs:206-263).
ResponseVariants == <<"NextHop", "GetPeers", "OnlyID", "Samples">>

\* Deserialize for an untagged enum: the first variant, in declaration
\* order, that the data deserializes as.
RECURSIVE Response_try(_, _)
Response_try(d, i) ==
    IF i > Len(ResponseVariants) THEN [variant |-> "DecodeError"]
    ELSE IF VariantMatches(d, ResponseVariants[i])
         THEN VariantValue(d, ResponseVariants[i])
         ELSE Response_try(d, i + 1)

Response_deserialize(d) == Response_try(d, 1)

\* ---- Query (tag "q", content "a") ----
Query_serialize(q) ==
    CASE q.q = "ping" -> ("id" :> q.id)
      [] q.q = "find_node" -> ("id" :> q.id) @@ ("target" :> q.target)
      [] q.q = "get_peers" -> ("id" :> q.id) @@ ("info_hash" :> q.info_hash)
      [] q.q = "announce_peer" ->
            ("id" :> q.id) @@ ("implied_port" :> bool_serialize(q.implied_port))
                @@ OptField("port", q.port) @@ ("info_hash" :> q.info_hash)
                @@ ("token" :> q.token)
      [] OTHER -> ("id" :> q.id) @@ ("target" :> q.target)

Query_deserialize(name, a) ==
    CASE name = "ping" /\ "id" \in DOMAIN a ->
            [q |-> "ping", id |-> a["id"]]
      [] name = "find_node" /\ {"id", "target"} \subseteq DOMAIN a ->
            [q |-> "find_node", id |-> a["id"], target |-> a["target"]]
      [] name = "get_peers" /\ {"id", "info_hash"} \subseteq DOMAIN a ->
            [q |-> "get_peers", id |-> a["id"], info_hash |-> a["info_hash"]]
      [] name = "announce_peer"
            /\ {"id", "implied_port", "info_hash", "token"} \subseteq DOMAIN a ->
            [q |-> "announce_peer", id |-> a["id"],
             implied_port |-> booleans_deserialize(a["implied_port"]),
             port |-> OptGet(a, "port"), info_hash |-> a["info_hash"],
             token |-> a["token"]]
      [] name = "sample_infohashes" /\ {"id", "target"} \subseteq DOMAIN a ->
            [q |-> "sample_infohashes", id |-> a["id"], target |-> a["target"]]
      [] OTHER -> [q |-> "DecodeError"]

\* ---- MessageType (tag "y") and Message ----
MessageType_serialize(mt) ==
    CASE mt.y = "q" -> ("y" :> "q") @@ ("q" :> mt.query.q)
                           @@ ("a" :> Query_serialize(mt.query))
      [] mt.y = "r" -> ("y" :> "r") @@ ("r" :> Response_serialize(mt.response))
      [] OTHER -> ("y" :> "e") @@ ("e" :> mt.error)

\* Message::encode: the envelope fields with the message type flattened
\* into the same dictionary; "ro" is skipped when false.
Message_encode(m) ==
    OptField("ip", m.ip) @@ ("t" :> m.transaction_id) @@ OptField("v", m.version)
        @@ MessageType_serialize(m.message_type)
        @@ (IF m.read_only THEN "ro" :> 1 ELSE <<>>)

DecodeFailed == [kind |-> "DecodeError"]

MessageType_deserialize(w) ==
    IF "y" \notin DOMAIN w THEN [y |-> "DecodeError"]
    ELSE CASE w["y"] = "q" /\ {"q", "a"} \subseteq DOMAIN w ->
                 LET q == Query_deserialize(w["q"], w["a"])
                 IN  IF q.q = "DecodeError" THEN [y |-> "DecodeError"]
                     ELSE [y |-> "q", query |-> q]
           [] w["y"] = "r" /\ "r" \in DOMAIN w ->
                 LET r == Response_deserialize(w["r"])
                 IN  IF r.variant = "DecodeError" THEN [y |-> "DecodeError"]
                     ELSE [y |-> "r", response |-> r]
           [] w["y"] = "e" /\ "e" \in DOMAIN w ->
                 [y |-> "e", error |-> w["e"]]
           [] OTHER -> [y |-> "DecodeError"]

\* Message::decode.
Message_decode(w) ==
    LET mt == MessageType_deserialize(w)
    IN  IF "t" \notin DOMAIN w \/ mt.y = "DecodeError" THEN DecodeFailed
        ELSE [kind |-> "Message", ip |-> OptGet(w, "ip"),
              transaction_id |-> w["t"], version |-> OptGet(w, "v"),
              message_type |-> mt,
              read_only |-> IF "ro" \in DOMAIN w
                            THEN booleans_deserialize(w["ro"]) ELSE FALSE]

(***************************************************************************)
(* Codec: state machine                                                    *)
(***************************************************************************)
Tokens == {<<1, 2>>}

QueryValues ==
    [q : {"ping"}, id : CodecIds]
    \cup [q : {"find_node"}, id : CodecIds, target : CodecIds]
    \cup [q : {"get_peers"}, id : CodecIds, info_hash : CodecIds]
    \cup [q : {"announce_peer"}, id : CodecIds, implied_port : BOOLEAN,
          port : OptionOf({6881}), info_hash : CodecIds, token : Tokens]
    \cup [q : {"sample_infohashes"}, id : CodecIds, target : CodecIds]

ResponseValues ==
    [variant : {"NextHop"}, id : CodecIds, token : OptionOf(Tokens),
     nodes : SeqsUpTo(NodeInfos, MaxList)]
    \cup [variant : {"GetPeers"}, id : CodecIds, token : OptionOf(Tokens),
          peers : SeqsUpTo(Addrs, MaxList)]
    \cup [variant : {"OnlyID"}, id : CodecIds]
    \cup [variant : {"Samples"}, id : CodecIds, interval : OptionOf({60}),
          nodes : SeqsUpTo(NodeInfos, MaxList), num : OptionOf({3}),
          samples : SeqsUpTo(CodecIds, MaxList)]

MessageTypeValues ==
    [y : {"q"}, query : QueryValues]
    \cup [y : {"r"}, response : ResponseValues]
    \cup [y : {"e"}, error : {<<201, "Generic Error">>}]

\* Every envelope value the data model can construct (within the bounds).
MessageValues ==
    [kind : {"Message"}, ip : OptionOf(Addrs), transaction_id : {<<0, 0, 0, 1>>},
     version : OptionOf({"v1"}), message_type : MessageTypeValues,
     read_only : BOOLEAN]

\* Response bodies as remote peers may send them: any combination of the
\* fields, a nodes string that may not be a whole number of records.
InboundBodies ==
    { OptField("id", i) @@ OptField("token", t) @@ OptField("nodes", n)
          @@ OptField("values", v) @@ OptField("samples", s) :
        i \in OptionOf(CodecIds), t \in OptionOf(Tokens),
        n \in OptionOf({<<>>, <<1, 7>>, <<1>>}),
        v \in OptionOf(SeqsUpTo(Addrs, MaxList)),
        s \in OptionOf(SeqsUpTo(CodecIds, MaxList)) }

NoMessage == [kind |-> "none"]
NoWire == <<>>

InitCodec ==
    /\ cpc = "idle" /\ cmsg = NoMessage /\ wire = NoWire /\ decoded = NoMessage
    /\ id = 0 /\ buckets = <<>> /\ adds = 0 /\ lastNode = -1
    /\ TxIdle

\* The program constructs an envelope value.
Construct(m) ==
    /\ cpc = "idle"
    /\ cmsg' = m
    /\ cpc' = "built"
    /\ UNCHANGED <<wire, decoded, tableVars, txVars>>

\* Message::encode of the constructed envelope.
Encode ==
    /\ cpc = "built"
    /\ wire' = Message_encode(cmsg)
    /\ cpc' = "onwire"
    /\ UNCHANGED <<cmsg, decoded, tableVars, txVars>>

\* A response datagram from a remote peer arrives.
ReceiveDatagram(body) ==
    /\ cpc = "idle"
    /\ wire' = ("t" :> <<0, 0, 0, 1>>) @@ ("y" :> "r") @@ ("r" :> body)
    /\ cpc' = "onwire"
    /\ UNCHANGED <<cmsg, decoded, tableVars, txVars>>

\* Message::decode of the bytes on the wire.
Decode ==
    /\ cpc = "onwire"
    /\ decoded' = Message_decode(wire)
    /\ cpc' = "decoded"
    /\ UNCHANGED <<cmsg, wire, tableVars, txVars>>

NextCodec ==
    \/ \E m \in MessageValues : Construct(m)
    \/ Encode
    \/ \E body \in InboundBodies : ReceiveDatagram(body)
    \/ Decode

SpecCodec == InitCodec /\ [][NextCodec]_vars

(***************************************************************************)
(* Codec: properties                                                       *)
(***************************************************************************)
\* The variant the field-presence rule values -> samples -> nodes ->
\* otherwise assigns to a response body.
VariantByPresence(body) ==
    IF "values" \in DOMAIN body THEN "GetPeers"
    ELSE IF "samples" \in DOMAIN body THEN "Samples"
    ELSE IF "nodes" \in DOMAIN body THEN "NextHop"
    ELSE "OnlyID"

\* A response body all of whose fields are well formed.
WellFormedBody(body) ==
    /\ "id" \in DOMAIN body
    /\ "nodes" \in DOMAIN body => node_info_deserialize(body["nodes"]).ok
    /\ "samples" \in DOMAIN body => "nodes" \in DOMAIN body

\* C6 (as claimed): a decoded response has the variant picked by field
\* presence in the order values -> samples -> nodes -> otherwise.
DecodeFollowsPresenceOrder ==
    (cpc = "decoded" /\ "r" \in DOMAIN wire /\ WellFormedBody(wire["r"]))
    => /\ decoded.kind = "Message"
       /\ decoded.message_type.response.variant = VariantByPresence(wire["r"])

\* C7 (as claimed): decode(encode(e)) = e for every constructed envelope.
EncodeDecodeRoundTrip ==
    (cpc = "decoded" /\ cmsg # NoMessage) => decoded = cmsg

\* A response body with an id, an empty values list and a nodes string of
\* exactly one compact node record (26 bytes in the program).
EmptyValuesOneNode(body) ==
    /\ "id" \in DOMAIN body
    /\ "values" \in DOMAIN body /\ body["values"] = <<>>
    /\ "nodes" \in DOMAIN body /\ Len(body["nodes"]) = 2

\* C19: a response body with an empty values list and a nodes string of
\* one record decodes as NextHop with that node, not as GetPeers.
EmptyValuesDecodesAsNextHop ==
    (cpc = "decoded" /\ "r" \in DOMAIN wire /\ EmptyValuesOneNode(wire["r"]))
    => /\ decoded.kind = "Message"
       /\ decoded.message_type.y = "r"
       /\ decoded.message_type.response.variant = "NextHop"
       /\ decoded.message_type.response.nodes
              = node_info_chunks(wire["r"]["nodes"])
       /\ Len(decoded.message_type.response.nodes) = 1

\* Witness for C19: such a datagram has arrived and has been decoded as
\* NextHop.
EmptyValuesBodyDecoded ==
    /\ cpc = "decoded" /\ cmsg = NoMessage
    /\ "r" \in DOMAIN wire /\ EmptyValuesOneNode(wire["r"])
    /\ decoded.kind = "Message"
    /\ decoded.message_type.response.variant = "NextHop"

====
